---- MODULE Spec2Model ----
(***************************************************************************)
(* Model of the test_books backend: the users / items / tags / item_tag    *)
(* tables of src/models.py, the data-access functions of src/service.py    *)
(* and the route handlers of src/routers/*.py.                             *)
(*                                                                         *)
(* Every service function opens its own session and commits, so one        *)
(* service call is one atomic step.  A route handler that makes several    *)
(* service calls (create_item, create_tag, link_tag_item, unlink_tag_item) *)
(* is a sequence of steps of one request slot; handlers that make a single *)
(* service call are single actions.                                        *)
(*                                                                         *)
(* The engine is create_engine('sqlite:///...') with no connection hook,   *)
(* so SQLite runs with its default PRAGMA foreign_keys = OFF: declared     *)
(* foreign keys (and their ON DELETE CASCADE) are parsed but not enforced. *)
(* UNIQUE / PRIMARY KEY constraints are enforced.                          *)
(***************************************************************************)
EXTENDS Integers, Sequences, FiniteSets, TLC

\* ---------------------------------------------------------------- bounds
MaxUsers == 2          \* rows ever inserted into users
MaxItems == 2          \* rows ever inserted into items
MaxTags  == 2          \* rows ever inserted into tags
MaxTime  == 2          \* last second of the database clock
NumSlots == 2          \* requests in flight at once
MaxSearchItems == 3    \* items in the database a search runs on
MaxFilters == 2        \* optional filters set in one search request

\* Python None where a row is expected, SQL NULL in a text / a DateTime column
None     == [id |-> 0]
NULL     == "NULL"
NullTime == <<>>

\* A DateTime column holds text.  CURRENT_TIMESTAMP writes 'YYYY-MM-DD HH:MM:SS',
\* modelled <<second>>; a Python datetime bound by SQLAlchemy's SQLite DateTime
\* type is written 'YYYY-MM-DD HH:MM:SS.ffffff', modelled <<second, microsecond>>.
\* SQLite compares and sorts such values as text; NULL sorts before every value.
RECURSIVE TextLE(_, _)
TextLE(a, b) ==
    IF a = <<>> THEN TRUE
    ELSE IF b = <<>> THEN FALSE
    ELSE IF Head(a) # Head(b) THEN Head(a) < Head(b)
    ELSE TextLE(Tail(a), Tail(b))

Datetimes == [sec : 1..MaxTime, micro : {0}]
bind_datetime(d) == <<d.sec, d.micro>>
result_datetime(text) ==
    [sec |-> text[1], micro |-> IF Len(text) > 1 THEN text[2] ELSE 0]
\* t1 <= t2 as Python datetimes
DatetimeLE(d1, d2) == d1.sec < d2.sec \/ (d1.sec = d2.sec /\ d1.micro <= d2.micro)

UserIds == 1..MaxUsers
ItemIds == 1..MaxItems
TagIds  == 1..MaxTags
Slots   == 1..NumSlots

\* request inputs
\* a str is the sequence of its characters
AliceEmail == <<"a", "l", "i", "c", "e", "@", "e", "x", "a", "m", "p", "l", "e", ".", "c", "o", "m">>
BobEmail   == <<"b", "o", "b", "@", "e", "x", "a", "m", "p", "l", "e", ".", "c", "o", "m">>
Emails       == {AliceEmail, BobEmail}
DisplayNames == {"Alice", "Bob"}
TagNames     == {"urgent", "work"}

\* src/enums.py
ItemKind     == {"book", "article"}
ItemStatus   == {"planned", "reading", "done"}
ItemPriority == {"low", "normal", "high"}
SortField    == {"created_at", "updated_at"}
SortOrder    == {"asc", "desc"}

\* src/schema.py
UserBaseSchema == [email : Emails, display_name : DisplayNames]
TagBaseSchema  == [name : TagNames]
ItemA == [title |-> <<"R", "e", "a", "d">>, kind |-> "book", status |-> "reading",
          priority |-> "high", notes |-> NULL]
ItemB == [title |-> <<"C", "a", "r">>, kind |-> "article", status |-> "done",
          priority |-> "high", notes |-> "Sunday evening"]
ItemBaseSchema == {ItemA, ItemB}

VARIABLES
    users,      \* table users: set of rows [id, email, display_name]
    items,      \* table items: set of rows [id, user_id, title, ..., created_at, updated_at]
    tags,       \* table tags: set of rows [id, user_id, name]
    item_tag,   \* table item_tag: set of rows <<item_id, tag_id>>
    seq,        \* sqlite_sequence: last AUTOINCREMENT id handed out per table
    now,        \* the database clock (func.now())
    pc,         \* per request slot: the next step of the handler it runs
    req,        \* per request slot: the arguments of the handler it runs
    response,   \* the last HTTP response sent
    result      \* the body of the last search response

vars == <<users, items, tags, item_tag, seq, now, pc, req, response, result>>
db   == <<users, items, tags, item_tag, seq>>

\* ------------------------------------------------------------ the engine
\* create_engine() installs no "PRAGMA foreign_keys=ON" hook
foreign_keys == FALSE

\* the query string of a DELETE request: no id parameter, or ?<name>_id=<id>
Query(Ids) == {None} \cup [id : Ids]

NoReq == [user_id |-> 0, item_id |-> 0, tag_id |-> 0, body |-> None]
Resp(route, status, detail) == [route |-> route, status |-> status, detail |-> detail]

\* ------------------------------------------------------- service layer
get_model_by_id_NoWhere(model_id, table) ==
    IF table = {} THEN None ELSE CHOOSE r \in table : TRUE

\* select(model).where(model.id == model_id) ... .first()
get_model_by_id(model_id, table) ==
    IF \E r \in table : r.id = model_id
    THEN CHOOSE r \in table : r.id = model_id
    ELSE None

get_all_models(table) == table

get_models_by_user_id(user_id, table) == {r \in table : r.user_id = user_id}

\* Item(**schema.model_dump(), user_id=...) as inserted: created_at comes from the
\* server default, updated_at (onupdate only) stays NULL
ItemRow(id, user_id, schema, created_at) ==
    [id |-> id, user_id |-> user_id, title |-> schema.title, kind |-> schema.kind,
     status |-> schema.status, priority |-> schema.priority, notes |-> schema.notes,
     created_at |-> created_at, updated_at |-> NullTime]

\* AUTOINCREMENT: the new rowid is one more than the largest ever used
NextId(t) == seq[t] + 1

\* uniqueness constraints checked by an INSERT
UserInsertOK_NoUnique(row) == TRUE
TagInsertOK_NameOnly(row)  == \A t \in tags : t.name # row.name
LinkInsertOK_NoKey(row)    == TRUE

UserInsertOK(row) == \A u \in users : u.email # row.email
\* items has its primary key and no other constraint over the stored rows
ItemInsertOK_UniqueTitle(row) ==
    \A i \in items : i.id # row.id /\ ~(i.user_id = row.user_id /\ i.title = row.title)
ItemInsertOK(row) == \A i \in items : i.id # row.id
TagInsertOK(row)  == \A t \in tags : ~(t.user_id = row.user_id /\ t.name = row.name)
LinkInsertOK(row) == row \notin item_tag
\* with enforcement on, an insert must reference an existing parent row
FkOK(parent_id, parent) == foreign_keys => (\E r \in parent : r.id = parent_id)

\* rows of item_tag removed by ON DELETE CASCADE when items / tags rows go
CascadeItems(gone) == IF foreign_keys THEN {l \in item_tag : l[1] \in gone} ELSE {}
CascadeTags(gone)  == IF foreign_keys THEN {l \in item_tag : l[2] \in gone} ELSE {}

\* with enforcement on, a users row that still has children cannot be deleted
UserDeleteOK(user_id) ==
    foreign_keys => ~\E r \in items \cup tags : r.user_id = user_id

NoResult == [params |-> None, rows |-> <<>>]

Init ==
    /\ users = {}
    /\ items = {}
    /\ tags = {}
    /\ item_tag = {}
    /\ seq = [t \in {"users", "items", "tags"} |-> 0]
    /\ now = 1
    /\ pc = [p \in Slots |-> "idle"]
    /\ req = [p \in Slots |-> NoReq]
    /\ response = Resp("none", 0, "")
    /\ result = NoResult

\* the clock advances
Tick ==
    /\ now < MaxTime
    /\ now' = now + 1
    /\ UNCHANGED <<db, pc, req, response, result>>

\* -------------------------------------------------------------- /users
\* POST /users/
create_user(user) ==
    /\ UserInsertOK(user) => seq.users < MaxUsers
    /\ IF UserInsertOK(user)
       THEN /\ users' = users \cup {[id |-> NextId("users"), email |-> user.email,
                                     display_name |-> user.display_name]}
            /\ seq' = [seq EXCEPT !.users = NextId("users")]
            /\ response' = Resp("create_user", 200, "")
       ELSE \* sqlalchemy.exc.IntegrityError
            /\ UNCHANGED <<users, seq>>
            /\ response' = Resp("create_user", 400, "User already exists")
    /\ UNCHANGED <<items, tags, item_tag, now, pc, req, result>>

\* GET /users/{user_id}
get_user_by_id(user_id) ==
    /\ response' = IF get_model_by_id(user_id, users) = None
                   THEN Resp("get_user_by_id", 404, "User not found")
                   ELSE Resp("get_user_by_id", 200, "")
    /\ UNCHANGED <<db, now, pc, req, result>>

\* DELETE /users/{id}: the path parameter is named id, the handler's parameter
\* user_id, so FastAPI reads user_id from the query string (required) and the
\* number in the path is bound to nothing.  query = None: no ?user_id= given.
delete_user(path_id, query) ==
    /\ IF query = None
       THEN \* request validation fails before the handler runs
            /\ UNCHANGED <<users>>
            /\ response' = Resp("delete_user", 422, "Field required")
       ELSE IF UserDeleteOK(query.id)
       THEN /\ users' = {u \in users : u.id # query.id}
            /\ response' = Resp("delete_user", 204, "")
       ELSE /\ UNCHANGED <<users>>
            /\ response' = Resp("delete_user", 400, "FOREIGN KEY constraint failed")
    /\ UNCHANGED <<items, tags, item_tag, seq, now, pc, req, result>>

\* -------------------------------------------------------------- /items
Arg(user_id, item_id, tag_id, body) ==
    [user_id |-> user_id, item_id |-> item_id, tag_id |-> tag_id, body |-> body]

\* GET /items/{item_id}
get_item_by_id(item_id) ==
    /\ response' = IF get_model_by_id(item_id, items) = None
                   THEN Resp("get_item_by_id", 404, "Item not found")
                   ELSE Resp("get_item_by_id", 200, "")
    /\ UNCHANGED <<db, now, pc, req, result>>

\* POST /items/user/{user_id}, first service call: the existence check
create_item_check(p, user_id, item) ==
    /\ pc[p] = "idle"
    /\ IF get_model_by_id(user_id, users) = None
       THEN /\ response' = Resp("create_item", 404, "User not found")
            /\ UNCHANGED <<pc, req>>
       ELSE /\ pc' = [pc EXCEPT ![p] = "create_item_insert"]
            /\ req' = [req EXCEPT ![p] = Arg(user_id, 0, 0, item)]
            /\ UNCHANGED response
    /\ UNCHANGED <<db, now, result>>

\* POST /items/user/{user_id}, second service call: create_model(Item, ...)
create_item_insert(p) ==
    /\ pc[p] = "create_item_insert"
    /\ LET row == ItemRow(NextId("items"), req[p].user_id, req[p].body, <<now>>)
           ok  == ItemInsertOK(row) /\ FkOK(row.user_id, users)
       IN  /\ ok => seq.items < MaxItems
           /\ IF ok
              THEN /\ items' = items \cup {row}
                   /\ seq' = [seq EXCEPT !.items = NextId("items")]
                   /\ response' = Resp("create_item", 200, "")
              ELSE \* sqlalchemy.exc.IntegrityError
                   /\ UNCHANGED <<items, seq>>
                   /\ response' = Resp("create_item", 400, "Item already exists")
    /\ pc' = [pc EXCEPT ![p] = "idle"]
    /\ req' = [req EXCEPT ![p] = NoReq]
    /\ UNCHANGED <<users, tags, item_tag, now, result>>

\* DELETE /items/{id}: item_id is a required query parameter, the path is unbound
delete_item(path_id, query) ==
    /\ IF query = None
       THEN /\ UNCHANGED <<items, item_tag>>
            /\ response' = Resp("delete_item", 422, "Field required")
       ELSE /\ items' = {i \in items : i.id # query.id}
            /\ item_tag' = item_tag \ CascadeItems({query.id})
            /\ response' = Resp("delete_item", 204, "")
    /\ UNCHANGED <<users, tags, seq, now, pc, req, result>>

\* --------------------------------------------------------------- /tags
\* GET /tags/{tag_id}
get_tag_by_id(tag_id) ==
    /\ response' = IF get_model_by_id(tag_id, tags) = None
                   THEN Resp("get_tag_by_id", 404, "Tag not found")
                   ELSE Resp("get_tag_by_id", 200, "")
    /\ UNCHANGED <<db, now, pc, req, result>>

\* POST /tags/user/{user_id}, first service call: the existence check
create_tag_check(p, user_id, tag) ==
    /\ pc[p] = "idle"
    /\ IF get_model_by_id(user_id, users) = None
       THEN /\ response' = Resp("create_tag", 404, "User not found")
            /\ UNCHANGED <<pc, req>>
       ELSE /\ pc' = [pc EXCEPT ![p] = "create_tag_insert"]
            /\ req' = [req EXCEPT ![p] = Arg(user_id, 0, 0, tag)]
            /\ UNCHANGED response
    /\ UNCHANGED <<db, now, result>>

\* POST /tags/user/{user_id}, second service call: create_model(Tag, ...)
create_tag_insert(p) ==
    /\ pc[p] = "create_tag_insert"
    /\ LET row == [id |-> NextId("tags"), user_id |-> req[p].user_id,
                   name |-> req[p].body.name]
       IN  /\ (TagInsertOK(row) /\ FkOK(row.user_id, users)) => seq.tags < MaxTags
           /\ IF TagInsertOK(row) /\ FkOK(row.user_id, users)
              THEN /\ tags' = tags \cup {row}
                   /\ seq' = [seq EXCEPT !.tags = NextId("tags")]
                   /\ response' = Resp("create_tag", 200, "")
              ELSE \* sqlalchemy.exc.IntegrityError
                   /\ UNCHANGED <<tags, seq>>
                   /\ response' = Resp("create_tag", 400, "Tag already exists")
    /\ pc' = [pc EXCEPT ![p] = "idle"]
    /\ req' = [req EXCEPT ![p] = NoReq]
    /\ UNCHANGED <<users, items, item_tag, now, result>>

\* DELETE /tags/{id}: tag_id is a required query parameter, the path is unbound
delete_tag(path_id, query) ==
    /\ IF query = None
       THEN /\ UNCHANGED <<tags, item_tag>>
            /\ response' = Resp("delete_tag", 422, "Field required")
       ELSE /\ tags' = {t \in tags : t.id # query.id}
            /\ item_tag' = item_tag \ CascadeTags({query.id})
            /\ response' = Resp("delete_tag", 204, "")
    /\ UNCHANGED <<users, items, seq, now, pc, req, result>>

\* insert(item_tag).values(item_id=item.id, tag_id=tag.id): the composite primary
\* key rejects a second row for the pair; nothing else is written
add_tag_to_item_ok_FkOnly(item_id, tag_id) ==
    /\ FkOK(item_id, items)
    /\ FkOK(tag_id, tags)

add_tag_to_item_ok(item_id, tag_id) ==
    /\ LinkInsertOK(<<item_id, tag_id>>)
    /\ FkOK(item_id, items)
    /\ FkOK(tag_id, tags)

add_tag_to_item(item_id, tag_id) == item_tag \cup {<<item_id, tag_id>>}

\* delete(item_tag).where(item_id == item.id and tag_id == tag.id)
remove_tag_from_item(item_id, tag_id) == item_tag \ {<<item_id, tag_id>>}

\* POST /tags/link/tag/{tag_id}/item/{item_id}, first service call
link_get_tag(p, tag_id, item_id) ==
    /\ pc[p] = "idle"
    /\ IF get_model_by_id(tag_id, tags) = None
       THEN /\ response' = Resp("link_tag_item", 404, "Tag not found")
            /\ UNCHANGED <<pc, req>>
       ELSE /\ pc' = [pc EXCEPT ![p] = "link_get_item"]
            /\ req' = [req EXCEPT ![p] = Arg(0, item_id, tag_id, None)]
            /\ UNCHANGED response
    /\ UNCHANGED <<db, now, result>>

link_get_item_WrongTable(p) ==
    /\ pc[p] = "link_get_item"
    /\ IF get_model_by_id(req[p].item_id, tags) = None
       THEN /\ response' = Resp("link_tag_item", 404, "Item not found")
            /\ pc' = [pc EXCEPT ![p] = "idle"]
            /\ req' = [req EXCEPT ![p] = NoReq]
       ELSE /\ pc' = [pc EXCEPT ![p] = "link_insert"]
            /\ UNCHANGED <<req, response>>
    /\ UNCHANGED <<db, now, result>>

\* second service call
link_get_item(p) ==
    /\ pc[p] = "link_get_item"
    /\ IF get_model_by_id(req[p].item_id, items) = None
       THEN /\ response' = Resp("link_tag_item", 404, "Item not found")
            /\ pc' = [pc EXCEPT ![p] = "idle"]
            /\ req' = [req EXCEPT ![p] = NoReq]
       ELSE /\ pc' = [pc EXCEPT ![p] = "link_insert"]
            /\ UNCHANGED <<req, response>>
    /\ UNCHANGED <<db, now, result>>

\* third service call: add_tag_to_item
link_insert(p) ==
    /\ pc[p] = "link_insert"
    /\ IF add_tag_to_item_ok(req[p].item_id, req[p].tag_id)
       THEN /\ item_tag' = add_tag_to_item(req[p].item_id, req[p].tag_id)
            /\ pc' = [pc EXCEPT ![p] = "link_refetch"]
            /\ UNCHANGED <<req, response>>
       ELSE \* sqlalchemy.exc.IntegrityError
            /\ response' = Resp("link_tag_item", 400, "Item already exists")
            /\ pc' = [pc EXCEPT ![p] = "idle"]
            /\ req' = [req EXCEPT ![p] = NoReq]
            /\ UNCHANGED item_tag
    /\ UNCHANGED <<users, items, tags, seq, now, result>>

\* fourth service call: the item is fetched again for the response body; a row
\* that is gone by now makes the ItemWithTagsSchema serialisation of None fail
refetch(p, route) ==
    /\ response' = IF get_model_by_id(req[p].item_id, items) = None
                   THEN Resp(route, 500, "Internal Server Error")
                   ELSE Resp(route, 200, "")
    /\ pc' = [pc EXCEPT ![p] = "idle"]
    /\ req' = [req EXCEPT ![p] = NoReq]
    /\ UNCHANGED <<db, now, result>>

link_refetch(p) ==
    /\ pc[p] = "link_refetch"
    /\ refetch(p, "link_tag_item")

\* POST /tags/unlink/tag/{tag_id}/item/{item_id}, first service call
unlink_get_tag(p, tag_id, item_id) ==
    /\ pc[p] = "idle"
    /\ IF get_model_by_id(tag_id, tags) = None
       THEN /\ response' = Resp("unlink_tag_item", 404, "Tag not found")
            /\ UNCHANGED <<pc, req>>
       ELSE /\ pc' = [pc EXCEPT ![p] = "unlink_get_item"]
            /\ req' = [req EXCEPT ![p] = Arg(0, item_id, tag_id, None)]
            /\ UNCHANGED response
    /\ UNCHANGED <<db, now, result>>

\* second service call
unlink_get_item(p) ==
    /\ pc[p] = "unlink_get_item"
    /\ IF get_model_by_id(req[p].item_id, items) = None
       THEN /\ response' = Resp("unlink_tag_item", 404, "Item not found")
            /\ pc' = [pc EXCEPT ![p] = "idle"]
            /\ req' = [req EXCEPT ![p] = NoReq]
       ELSE /\ pc' = [pc EXCEPT ![p] = "unlink_delete"]
            /\ UNCHANGED <<req, response>>
    /\ UNCHANGED <<db, now, result>>

\* third service call: remove_tag_from_item
unlink_delete(p) ==
    /\ pc[p] = "unlink_delete"
    /\ item_tag' = remove_tag_from_item(req[p].item_id, req[p].tag_id)
    /\ pc' = [pc EXCEPT ![p] = "unlink_refetch"]
    /\ UNCHANGED <<users, items, tags, seq, now, req, response, result>>

unlink_refetch(p) ==
    /\ pc[p] = "unlink_refetch"
    /\ refetch(p, "unlink_tag_item")

\* --------------------------------------------------------------- /test
\* create_seed_data(): one session, three commits.  The fixture it adds:
SeedUsers ==
    <<[email |-> AliceEmail, display_name |-> "Alice"],
      [email |-> BobEmail, display_name |-> "Bob"]>>
\* tag k belongs to user SeedTagOwner[k] of SeedUsers
SeedTagNames == <<"urgent", "work", "personal">>
SeedTagOwner == <<1, 1, 2>>
SeedItem(title, notes) ==
    [title |-> title, kind |-> "book", status |-> "reading", priority |-> "high",
     notes |-> notes]
SeedItems ==
    <<SeedItem(<<"F", "i", "n", "i", "s", "h", " ", "r", "e", "p", "o", "r", "t">>,
               "Due next week"),
      SeedItem(<<"B", "u", "y", " ", "g", "r", "o", "c", "e", "r", "i", "e", "s">>,
               "Milk, Bread, Eggs"),
      SeedItem(<<"C", "a", "l", "l", " ", "m", "o", "m">>, "Sunday evening")>>
SeedItemOwner == <<1, 1, 2>>
\* item.tags.append(tag): <<item, tag>> as indexes into SeedItems / SeedTagNames
SeedLinks == {<<1, 1>>, <<1, 2>>, <<2, 2>>, <<3, 3>>}

\* the session's objects user1, user2, tag1..tag3 between the commits
SeedLocals(user_ids, tag_ids) == [user_ids |-> user_ids, tag_ids |-> tag_ids]

SeedDone(p, status, detail) ==
    /\ response' = Resp("create_data_for_tests", status, detail)
    /\ pc' = [pc EXCEPT ![p] = "idle"]
    /\ req' = [req EXCEPT ![p] = NoReq]

\* POST /test/, up to the first commit: session.add_all([user1, user2]).  Both
\* INSERTs run in one transaction, which an IntegrityError rolls back whole.
seed_users(p) ==
    /\ pc[p] = "idle"
    /\ LET ids == [k \in DOMAIN SeedUsers |-> seq.users + k]
           ok  == \A k \in DOMAIN SeedUsers : UserInsertOK(SeedUsers[k])
       IN  /\ ok => seq.users < MaxUsers
           /\ IF ok
              THEN /\ users' = users \cup
                         {[id |-> ids[k], email |-> SeedUsers[k].email,
                           display_name |-> SeedUsers[k].display_name] :
                             k \in DOMAIN SeedUsers}
                   /\ seq' = [seq EXCEPT !.users = seq.users + Len(SeedUsers)]
                   /\ pc' = [pc EXCEPT ![p] = "seed_tags"]
                   /\ req' = [req EXCEPT ![p] = Arg(0, 0, 0, SeedLocals(ids, <<>>))]
                   /\ UNCHANGED response
              ELSE /\ SeedDone(p, 400, "Item already exists")
                   /\ UNCHANGED <<users, seq>>
    /\ UNCHANGED <<items, tags, item_tag, now, result>>

\* a commit expires the session's objects: reading user1.id afterwards reloads the
\* row, and a row deleted meanwhile raises ObjectDeletedError (not caught)
SeedRowsGone(p) ==
    \/ \E k \in DOMAIN req[p].body.user_ids : ~\E u \in users : u.id = req[p].body.user_ids[k]
    \/ \E k \in DOMAIN req[p].body.tag_ids : ~\E t \in tags : t.id = req[p].body.tag_ids[k]

\* from the first commit to the second: session.add_all([tag1, tag2, tag3])
seed_tags(p) ==
    /\ pc[p] = "seed_tags"
    /\ LET user_ids == req[p].body.user_ids
           ids  == [k \in DOMAIN SeedTagNames |-> seq.tags + k]
           rows == [k \in DOMAIN SeedTagNames |->
                       [id |-> ids[k], user_id |-> user_ids[SeedTagOwner[k]],
                        name |-> SeedTagNames[k]]]
       IN  IF SeedRowsGone(p)
           THEN /\ SeedDone(p, 500, "Internal Server Error")
                /\ UNCHANGED <<tags, seq>>
           ELSE IF \A k \in DOMAIN rows : TagInsertOK(rows[k]) /\ FkOK(rows[k].user_id, users)
           THEN /\ tags' = tags \cup {rows[k] : k \in DOMAIN rows}
                /\ seq' = [seq EXCEPT !.tags = seq.tags + Len(SeedTagNames)]
                /\ pc' = [pc EXCEPT ![p] = "seed_items"]
                /\ req' = [req EXCEPT ![p].body = SeedLocals(user_ids, ids)]
                /\ UNCHANGED response
           ELSE \* sqlalchemy.exc.IntegrityError
                /\ SeedDone(p, 400, "Item already exists")
                /\ UNCHANGED <<tags, seq>>
    /\ UNCHANGED <<users, items, item_tag, now, result>>

\* from the second commit to the last: the three items (created_at is Python's
\* datetime.utcnow()) and their item_tag rows
seed_items(p) ==
    /\ pc[p] = "seed_items"
    /\ LET user_ids == req[p].body.user_ids
           tag_ids  == req[p].body.tag_ids
           ids  == [k \in DOMAIN SeedItems |-> seq.items + k]
           rows == {ItemRow(ids[k], user_ids[SeedItemOwner[k]], SeedItems[k],
                            bind_datetime([sec |-> now, micro |-> 0])) :
                       k \in DOMAIN SeedItems}
           links == {<<ids[l[1]], tag_ids[l[2]]>> : l \in SeedLinks}
       IN  IF SeedRowsGone(p)
           THEN /\ SeedDone(p, 500, "Internal Server Error")
                /\ UNCHANGED <<items, item_tag, seq>>
           ELSE IF /\ \A r \in rows : ItemInsertOK(r) /\ FkOK(r.user_id, users)
                   /\ \A l \in links : LinkInsertOK(l)
           THEN /\ items' = items \cup rows
                /\ item_tag' = item_tag \cup links
                /\ seq' = [seq EXCEPT !.items = seq.items + Len(SeedItems)]
                /\ SeedDone(p, 200, "success")
           ELSE \* sqlalchemy.exc.IntegrityError
                /\ SeedDone(p, 400, "Item already exists")
                /\ UNCHANGED <<items, item_tag, seq>>
    /\ UNCHANGED <<users, tags, now, result>>

\* ------------------------------------------------------------- search
Range(f) == {f[k] : k \in DOMAIN f}
Min(a, b) == IF a < b THEN a ELSE b

\* lower(): ASCII letters only
LowerChar(c) ==
    CASE c = "A" -> "a" [] c = "B" -> "b" [] c = "C" -> "c" [] c = "D" -> "d"
      [] c = "E" -> "e" [] c = "F" -> "f" [] c = "L" -> "l" [] c = "M" -> "m"
      [] c = "P" -> "p" [] c = "R" -> "r" [] c = "X" -> "x" [] OTHER -> c
lower(str) == [k \in 1..Len(str) |-> LowerChar(str[k])]

\* SQLite LIKE: % matches any run of characters, _ any one character, a letter
\* matches itself in either case
RECURSIVE Like(_, _)
Like(str, pattern) ==
    IF pattern = <<>> THEN str = <<>>
    ELSE IF Head(pattern) = "%"
         THEN Like(str, Tail(pattern)) \/ (str # <<>> /\ Like(Tail(str), pattern))
    ELSE /\ str # <<>>
         /\ Head(pattern) = "_" \/ LowerChar(Head(str)) = LowerChar(Head(pattern))
         /\ Like(Tail(str), Tail(pattern))

\* Item.title.ilike(f"%{title_substring}%") is lower(title) LIKE lower(pattern)
ilike(title, title_substring) ==
    Like(lower(title), lower(<<"%">> \o title_substring \o <<"%">>))

\* FROM items [JOIN item_tag JOIN tags]: rows <<item, tag>>
JoinRows(params) ==
    IF params.tag_names # <<>>
    THEN {r \in items \X tags : <<r[1].id, r[2].id>> \in item_tag}
    ELSE {<<i, None>> : i \in items}

\* WHERE and_(*filters): a filter is appended when its parameter is truthy
Filters(params, row) ==
    /\ params.status # NULL => row[1].status = params.status
    /\ params.kind # NULL => row[1].kind = params.kind
    /\ params.priority # NULL => row[1].priority = params.priority
    /\ params.title_substring # <<>> => ilike(row[1].title, params.title_substring)
    /\ params.created_from # None =>
          TextLE(bind_datetime(params.created_from), row[1].created_at)
    /\ params.created_to # None =>
          TextLE(row[1].created_at, bind_datetime(params.created_to))
    /\ params.tag_names # <<>> => row[2].name \in Range(params.tag_names)

\* SELECT DISTINCT items.*
Distinct(rows) == {r[1] : r \in rows}

\* sort_col_map.get(sort_field, Item.created_at)
SortCol(i, sort_field) ==
    IF sort_field = "updated_at" THEN i.updated_at ELSE i.created_at

\* ORDER BY: every sequence of the rows that respects the order of the sort
\* column; rows with equal values come in any order
OrderBy(rows, sort_field, sort_order) ==
    {f \in [1..Cardinality(rows) -> rows] :
        /\ \A j, k \in DOMAIN f : j # k => f[j] # f[k]
        /\ \A j, k \in DOMAIN f : j < k =>
              IF sort_order = "desc"
              THEN TextLE(SortCol(f[k], sort_field), SortCol(f[j], sort_field))
              ELSE TextLE(SortCol(f[j], sort_field), SortCol(f[k], sort_field))}

\* LIMIT limit OFFSET offset
LimitOffset(ordered, limit, offset) ==
    SubSeq(ordered, offset + 1, Min(offset + limit, Len(ordered)))

\* joinedload(Item.tags): LEFT OUTER JOIN (item_tag JOIN tags) under aliases
ItemWithTagsSchema(i) ==
    [id |-> i.id, title |-> i.title, kind |-> i.kind, status |-> i.status,
     priority |-> i.priority, notes |-> i.notes,
     tags |-> {[id |-> t.id, name |-> t.name] :
                 t \in {t \in tags : <<i.id, t.id>> \in item_tag}}]

\* the same, with LIMIT / OFFSET counting the joined rows
get_filtered_items_RowLimit(params) ==
    LET joined == {r \in JoinRows(params) : Filters(params, r)} IN
    UNION {{[k \in DOMAIN outer |-> ItemWithTagsSchema(outer[k])] :
              outer \in OrderBy(Distinct(Range(LimitOffset(inner, params.limit,
                                                           params.offset))),
                                params.sort_field, params.sort_order)} :
           inner \in {f \in [1..Cardinality(joined) -> joined] :
                        /\ \A j, k \in DOMAIN f : j # k => f[j] # f[k]
                        /\ \A j, k \in DOMAIN f : j < k =>
                              IF params.sort_order = "desc"
                              THEN TextLE(SortCol(f[k][1], params.sort_field),
                                          SortCol(f[j][1], params.sort_field))
                              ELSE TextLE(SortCol(f[j][1], params.sort_field),
                                          SortCol(f[k][1], params.sort_field))}}

\* get_filtered_items: with LIMIT and a joined eager load the ORM runs the
\* DISTINCT / WHERE / ORDER BY / LIMIT / OFFSET statement as a subquery, joins the
\* tags to its rows, orders by the same column again and uniquifies the entities
get_filtered_items(params) ==
    LET matching == Distinct({r \in JoinRows(params) : Filters(params, r)}) IN
    UNION {{[k \in DOMAIN outer |-> ItemWithTagsSchema(outer[k])] :
              outer \in OrderBy(Range(LimitOffset(inner, params.limit, params.offset)),
                                params.sort_field, params.sort_order)} :
           inner \in OrderBy(matching, params.sort_field, params.sort_order)}

\* src/schema.py ItemSearchParams; None and "" / [] take the same branches, so
\* an unset text or list parameter is the empty one
ActiveFilters(f) ==
    Cardinality({n \in {"status", "kind", "priority"} : f[n] # NULL})
    + Cardinality({n \in {"tag_names", "title_substring"} : f[n] # <<>>})
    + Cardinality({n \in {"created_from", "created_to"} : f[n] # None})

ItemSearchParams ==
    {f \in [status : {NULL, "reading"}, kind : {NULL, "book"}, priority : {NULL, "high"},
            tag_names : {<<>>, <<"urgent">>, <<"urgent", "work">>},
            title_substring : {<<>>, <<"A", "r">>},
            created_from : {None} \cup Datetimes, created_to : {None} \cup Datetimes,
            limit : 1..MaxSearchItems, offset : 0..(MaxSearchItems - 1),
            sort_field : SortField, sort_order : SortOrder] :
        ActiveFilters(f) <= MaxFilters}

\* POST /items/: the request body, validated as ItemSearchParams, is in the slot
search_items(p) ==
    /\ pc[p] = "search_items"
    /\ \E rows \in get_filtered_items(req[p].body) :
          result' = [params |-> req[p].body, rows |-> rows]
    /\ response' = Resp("search_items", 200, "")
    /\ pc' = [pc EXCEPT ![p] = "idle"]
    /\ req' = [req EXCEPT ![p] = NoReq]
    /\ UNCHANGED <<db, now>>

\* a search request arrives
search_request(p, params) ==
    /\ pc[p] = "idle"
    /\ pc' = [pc EXCEPT ![p] = "search_items"]
    /\ req' = [req EXCEPT ![p] = Arg(0, 0, 0, params)]
    /\ UNCHANGED <<db, now, response, result>>

\* ------------------------------------------------------- specifications
\* ------------------------------------------------- the request boundary
\* what a client may send as "email" in the body of POST /users/
AliceEmailUpper == <<"a", "l", "i", "c", "e", "@", "E", "X", "A", "M", "P", "L", "E", ".", "c", "o", "m">>
RawEmails == Emails \cup {AliceEmailUpper, <<"b", "o", "b">>}
UserInput == [email : RawEmails, display_name : DisplayNames]

\* email: EmailStr.  A value without exactly one "@" between a local part and a
\* domain is refused; an accepted value is replaced by its normalised form, the
\* local part as given and the domain in lower case.
AtSigns(value) == {k \in DOMAIN value : value[k] = "@"}
ValidEmail(value) ==
    /\ Cardinality(AtSigns(value)) = 1
    /\ \A k \in AtSigns(value) : 1 < k /\ k < Len(value)
EmailStr(value) ==
    LET at == CHOOSE k \in AtSigns(value) : TRUE
    IN  SubSeq(value, 1, at) \o lower(SubSeq(value, at + 1, Len(value)))

\* POST /users/ as the client sees it: FastAPI validates the body into a
\* UserBaseSchema (422 when it cannot), then calls the handler
post_user(body) ==
    IF ValidEmail(body.email)
    THEN create_user([email |-> EmailStr(body.email), display_name |-> body.display_name])
    ELSE /\ response' = Resp("create_user", 422, "value is not a valid email address")
         /\ UNCHANGED <<db, now, pc, req, result>>

\* response_model=UserWithIdSchema: a row read back is validated again on the
\* way out
UserWithIdSchema(row) ==
    [id |-> row.id, email |-> EmailStr(row.email), display_name |-> row.display_name]

\* GET /users/
get_all_users ==
    /\ response' = Resp("get_all_users", 200, "")
    /\ UNCHANGED <<db, now, pc, req, result>>

UserOps ==
    \/ \E user \in UserBaseSchema : create_user(user)
    \/ \E id \in UserIds : get_user_by_id(id)
    \/ \E id \in UserIds, q \in Query(UserIds) : delete_user(id, q)

SearchOps ==
    \/ \E p \in Slots, params \in ItemSearchParams : search_request(p, params)
    \/ \E p \in Slots : search_items(p)

ItemOps ==
    \/ \E id \in ItemIds : get_item_by_id(id)
    \/ \E p \in Slots, u \in UserIds, item \in ItemBaseSchema : create_item_check(p, u, item)
    \/ \E p \in Slots : create_item_insert(p)
    \/ \E id \in ItemIds, q \in Query(ItemIds) : delete_item(id, q)

TagOps ==
    \/ \E id \in TagIds : get_tag_by_id(id)
    \/ \E p \in Slots, u \in UserIds, tag \in TagBaseSchema : create_tag_check(p, u, tag)
    \/ \E p \in Slots : create_tag_insert(p)
    \/ \E id \in TagIds, q \in Query(TagIds) : delete_tag(id, q)

LinkOps(S) ==
    \/ \E p \in S, t \in TagIds, i \in ItemIds : link_get_tag(p, t, i)
    \/ \E p \in S : link_get_item(p)
    \/ \E p \in S : link_insert(p)
    \/ \E p \in S : link_refetch(p)
    \/ \E p \in S, t \in TagIds, i \in ItemIds : unlink_get_tag(p, t, i)
    \/ \E p \in S : unlink_get_item(p)
    \/ \E p \in S : unlink_delete(p)
    \/ \E p \in S : unlink_refetch(p)

\* the whole API on an empty database
SeedOps ==
    \/ \E p \in Slots : seed_users(p)
    \/ \E p \in Slots : seed_tags(p)
    \/ \E p \in Slots : seed_items(p)

Next == Tick \/ UserOps \/ ItemOps \/ SearchOps \/ TagOps \/ LinkOps(Slots) \/ SeedOps

Spec == Init /\ [][Next]_vars

\* The specifications below restrict Next to the handlers that read or write the
\* tables a property is about (every other handler leaves those tables UNCHANGED).

\* /users alone
UserNext == UserOps
UserSpec == Init /\ [][UserNext]_vars

\* /users with the bodies clients send
RoundTripNext ==
    \/ \E body \in UserInput : post_user(body)
    \/ get_all_users
    \/ \E id \in UserIds : get_user_by_id(id)
    \/ \E id \in UserIds, q \in Query(UserIds) : delete_user(id, q)
RoundTripSpec == Init /\ [][RoundTripNext]_vars

\* users and their tags
TagNext ==
    \/ \E user \in UserBaseSchema : create_user(user)
    \/ \E id \in UserIds, q \in Query(UserIds) : delete_user(id, q)
    \/ TagOps
TagSpec == Init /\ [][TagNext]_vars

\* users and their items
ItemNext ==
    \/ Tick
    \/ \E user \in UserBaseSchema : create_user(user)
    \/ \E id \in UserIds, q \in Query(UserIds) : delete_user(id, q)
    \/ ItemOps
ItemSpec == Init /\ [][ItemNext]_vars

\* POST /test/ next to the requests that write users and tags
SeedNext ==
    \/ SeedOps
    \/ \E user \in UserBaseSchema : create_user(user)
    \/ \E id \in UserIds, q \in Query(UserIds) : delete_user(id, q)
    \/ \E p \in Slots, u \in UserIds, tag \in TagBaseSchema : create_tag_check(p, u, tag)
    \/ \E p \in Slots : create_tag_insert(p)
SeedSpec == Init /\ [][SeedNext]_vars

\* A populated database: alice and bob have created items and tags in turn.
Owner(n)   == ((n - 1) % 2) + 1
Input(n)   == IF n % 2 = 1 THEN ItemA ELSE ItemB
TagName(n) == IF n % 4 \in {0, 1} THEN "urgent" ELSE "work"
PopulatedInit ==
    /\ users = {[id |-> 1, email |-> AliceEmail, display_name |-> "Alice"],
                [id |-> 2, email |-> BobEmail, display_name |-> "Bob"]}
    /\ items = {ItemRow(i, Owner(i), Input(i), <<1>>) : i \in ItemIds}
    /\ tags = {[id |-> t, user_id |-> Owner(t), name |-> TagName(t)] : t \in TagIds}
    /\ item_tag = {}
    /\ seq = [users |-> 2, items |-> MaxItems, tags |-> MaxTags]
    /\ now = 1
    /\ pc = [p \in Slots |-> "idle"]
    /\ req = [p \in Slots |-> NoReq]
    /\ response = Resp("none", 0, "")
    /\ result = NoResult

\* linking, unlinking and deleting on the populated database, one request at a time
\* in a slot (the single-call DELETE handlers still run between its steps)
LinkNext ==
    \/ LinkOps({1})
    \/ \E id \in UserIds, q \in Query(UserIds) : delete_user(id, q)
    \/ \E id \in ItemIds, q \in Query(ItemIds) : delete_item(id, q)
    \/ \E id \in TagIds, q \in Query(TagIds) : delete_tag(id, q)
LinkSpec == PopulatedInit /\ [][LinkNext]_vars

\* link requests alone, in every slot at once
ConcurrentLinkNext ==
    \/ \E p \in Slots, t \in TagIds, i \in ItemIds : link_get_tag(p, t, i)
    \/ \E p \in Slots : link_get_item(p)
    \/ \E p \in Slots : link_insert(p)
    \/ \E p \in Slots : link_refetch(p)
ConcurrentLinkSpec == PopulatedInit /\ [][ConcurrentLinkNext]_vars
\* A database to search, and a search request in slot 1: MaxSearchItems items
\* created by alice and bob in turn, one per second or all within one second,
\* linked to any of their tags.
SearchItemIds == 1..MaxSearchItems
SearchInit ==
    /\ users = {[id |-> 1, email |-> AliceEmail, display_name |-> "Alice"],
                [id |-> 2, email |-> BobEmail, display_name |-> "Bob"]}
    /\ \E spread \in BOOLEAN :
          items = {ItemRow(i, Owner(i), Input(i), IF spread THEN <<i>> ELSE <<1>>) :
                     i \in SearchItemIds}
    /\ tags = {[id |-> t, user_id |-> Owner(t), name |-> TagName(t)] : t \in TagIds}
    /\ item_tag \in SUBSET (SearchItemIds \X TagIds)
    /\ seq = [users |-> 2, items |-> MaxSearchItems, tags |-> MaxTags]
    /\ now = MaxSearchItems
    /\ \E params \in ItemSearchParams :
          /\ pc = [p \in Slots |-> IF p = 1 THEN "search_items" ELSE "idle"]
          /\ req = [p \in Slots |-> IF p = 1 THEN Arg(0, 0, 0, params) ELSE NoReq]
    /\ response = Resp("none", 0, "")
    /\ result = NoResult

SearchNext == search_items(1)
SearchSpec == SearchInit /\ [][SearchNext]_vars

\* ============================================================ properties
Exists(id, table) == \E r \in table : r.id = id

\* C1: deleting user U through DELETE /users removes U, every item and tag U
\* owns and every association row of those items and tags, so that fetch-by-id
\* of such an item or tag returns None afterwards.
C1_DeleteUserCascades ==
    [][\A path \in UserIds, q \in [id : UserIds] :
         (delete_user(path, q) /\ response'.status = 204) =>
            \A i \in items, t \in tags :
               (i.user_id = q.id /\ t.user_id = q.id /\ <<i.id, t.id>> \in item_tag) =>
                  /\ ~Exists(q.id, users')
                  /\ get_model_by_id(i.id, items') = None
                  /\ get_model_by_id(t.id, tags') = None
                  /\ <<i.id, t.id>> \notin item_tag']_vars

\* C2: every association row references an item that exists and a tag that exists.
C2_LinksReferenceRows ==
    \A l \in item_tag : Exists(l[1], items) /\ Exists(l[2], tags)

\* C3: emails are unique among users, and POST /users with an email some user
\* holds answers 400 "User already exists", adds no row and leaves every existing
\* row as it was, still returned by fetch-by-id.
EmailUnique == \A u1, u2 \in users : u1.email = u2.email => u1 = u2

C3_DuplicateEmailRejected ==
    /\ []EmailUnique
    /\ [][\A user \in UserBaseSchema :
            (create_user(user) /\ \E u \in users : u.email = user.email) =>
               /\ response' = Resp("create_user", 400, "User already exists")
               /\ users' = users
               /\ \A u \in users : get_model_by_id(u.id, users') = u]_vars

C3_Witness ==
    /\ response = Resp("create_user", 400, "User already exists")
    /\ Cardinality(users) = 1
    /\ seq.users = 1

\* C4: no two tags share (user id, name); the insert of a tag named N for user B
\* succeeds when no tag of B is named N (also when another user has one), and
\* answers 400 "Tag already exists" without adding a row when B has one.
TagNameUniquePerUser ==
    \A t1, t2 \in tags : (t1.user_id = t2.user_id /\ t1.name = t2.name) => t1 = t2

C4_TagNamePerUser ==
    /\ []TagNameUniquePerUser
    /\ [][\A p \in Slots :
            create_tag_insert(p) =>
               IF \E t \in tags : t.user_id = req[p].user_id /\ t.name = req[p].body.name
               THEN /\ response' = Resp("create_tag", 400, "Tag already exists")
                    /\ tags' = tags
               ELSE /\ response' = Resp("create_tag", 200, "")
                    /\ \E t \in tags' \ tags :
                          /\ t.user_id = req[p].user_id
                          /\ t.name = req[p].body.name
                          /\ tags' = tags \cup {t}]_vars

C4_Witness ==
    /\ response = Resp("create_tag", 400, "Tag already exists")
    /\ \E t1, t2 \in tags : t1.name = t2.name /\ t1.user_id # t2.user_id

\* C5: the link insert succeeds exactly when the pair is not linked; on a linked
\* pair it answers 400 "Item already exists" and leaves item_tag unchanged; unlink
\* removes the pair (and only it), so that a following link succeeds again; a link
\* whose item still exists at the refetch answers 200.
C5_LinkOncePerPair ==
    [][\A p \in Slots :
         LET pair == <<req[p].item_id, req[p].tag_id>> IN
         /\ link_insert(p) =>
               IF pair \in item_tag
               THEN /\ response' = Resp("link_tag_item", 400, "Item already exists")
                    /\ item_tag' = item_tag
                    /\ pc'[p] = "idle"
               ELSE /\ item_tag' = item_tag \cup {pair}
                    /\ pc'[p] = "link_refetch"
                    /\ response' = response
         /\ (link_refetch(p) /\ Exists(req[p].item_id, items)) =>
               response' = Resp("link_tag_item", 200, "")
         /\ unlink_delete(p) => item_tag' = item_tag \ {pair}]_vars

C5_Witness ==
    /\ response = Resp("link_tag_item", 400, "Item already exists")
    /\ item_tag # {}
    /\ \A l \in item_tag : Exists(l[1], items) /\ Exists(l[2], tags)

\* C6: link and unlink answer 404 "Tag not found" when the tag is absent, 404 "Item
\* not found" when the tag was found and the item is absent, and in both cases
\* the handler ends there: item_tag is unchanged and no insert or delete follows.
C6_LinkNotFound ==
    [][/\ \A p \in Slots, t \in TagIds, i \in ItemIds :
            /\ (link_get_tag(p, t, i) /\ ~Exists(t, tags)) =>
                  /\ response' = Resp("link_tag_item", 404, "Tag not found")
                  /\ item_tag' = item_tag /\ pc'[p] = "idle"
            /\ (unlink_get_tag(p, t, i) /\ ~Exists(t, tags)) =>
                  /\ response' = Resp("unlink_tag_item", 404, "Tag not found")
                  /\ item_tag' = item_tag /\ pc'[p] = "idle"
       /\ \A p \in Slots :
            /\ (link_get_item(p) /\ ~Exists(req[p].item_id, items)) =>
                  /\ response' = Resp("link_tag_item", 404, "Item not found")
                  /\ item_tag' = item_tag /\ pc'[p] = "idle"
            /\ (unlink_get_item(p) /\ ~Exists(req[p].item_id, items)) =>
                  /\ response' = Resp("unlink_tag_item", 404, "Item not found")
                  /\ item_tag' = item_tag /\ pc'[p] = "idle"]_vars

C6_Witness ==
    /\ response = Resp("link_tag_item", 404, "Item not found")
    /\ pc[1] = "idle"
    /\ tags # {}

\* C7: POST /items/user/{user_id} and POST /tags/user/{user_id} insert a row only
\* if the user exists at the moment of the insert, in every interleaving with a
\* DELETE of that user.
C7_InsertOnlyForExistingUser ==
    [][\A p \in Slots :
         /\ (create_item_insert(p) /\ items' # items) => Exists(req[p].user_id, users)
         /\ (create_tag_insert(p) /\ tags' # tags) => Exists(req[p].user_id, users)]_vars

\* C8: a DELETE request for the id in its path answers 204, leaves no record with
\* that id, and changes nothing when there was none.
C8_DeleteByPathId ==
    [][/\ \A path \in UserIds, q \in Query(UserIds) :
            delete_user(path, q) =>
               /\ response'.status = 204
               /\ ~Exists(path, users')
               /\ ~Exists(path, users) => users' = users
       /\ \A path \in ItemIds, q \in Query(ItemIds) :
            delete_item(path, q) =>
               /\ response'.status = 204
               /\ ~Exists(path, items')
               /\ ~Exists(path, items) => items' = items
       /\ \A path \in TagIds, q \in Query(TagIds) :
            delete_tag(path, q) =>
               /\ response'.status = 204
               /\ ~Exists(path, tags')
               /\ ~Exists(path, tags) => tags' = tags]_vars
\* C9: a search returns no item twice, every returned item satisfies all the
\* filters given (status, kind, priority equal; title contains the substring in
\* any case; created_from <= created_at <= created_to; linked to at least one tag
\* named in tag_names) and carries all of its tags, and when the page is large
\* enough every item that satisfies the filters is returned.
Contains(str, sub) ==
    \E k \in 1..(Len(str) - Len(sub) + 1) :
       lower(SubSeq(str, k, k + Len(sub) - 1)) = lower(sub)

LinkedTags(i) == {t \in tags : <<i.id, t.id>> \in item_tag}

Satisfies(i, f) ==
    /\ f.status # NULL => i.status = f.status
    /\ f.kind # NULL => i.kind = f.kind
    /\ f.priority # NULL => i.priority = f.priority
    /\ f.title_substring # <<>> => Contains(i.title, f.title_substring)
    /\ f.created_from # None => DatetimeLE(f.created_from, result_datetime(i.created_at))
    /\ f.created_to # None => DatetimeLE(result_datetime(i.created_at), f.created_to)
    /\ f.tag_names # <<>> => \E t \in LinkedTags(i) : t.name \in Range(f.tag_names)

Searched == result.params # None
RowIds == [k \in DOMAIN result.rows |-> result.rows[k].id]

C9_SearchReturnsSatisfying ==
    Searched =>
       LET f == result.params
           satisfying == {i \in items : Satisfies(i, f)}
       IN  /\ \A j, k \in DOMAIN RowIds : j # k => RowIds[j] # RowIds[k]
           /\ \A k \in DOMAIN RowIds :
                 \E i \in satisfying :
                    /\ i.id = RowIds[k]
                    /\ result.rows[k].tags = {[id |-> t.id, name |-> t.name] : t \in LinkedTags(i)}
           /\ (f.offset = 0 /\ f.limit >= Cardinality(satisfying)) =>
                 Range(RowIds) = {i.id : i \in satisfying}

\* C10: sorted by created_at over items whose creation times differ pairwise, the
\* k-th row of the response is the item at position offset + k of the distinct
\* items the query selects, counted from the newest (desc) or the oldest (asc),
\* and the response has min(limit, selected - offset) rows, never fewer.
Selected(f) == {i \in items : \E r \in JoinRows(f) : r[1] = i /\ Filters(f, r)}

Before(i, j, sort_order) ==
    LET a == result_datetime(i.created_at)
        b == result_datetime(j.created_at)
    IN  IF sort_order = "desc" THEN DatetimeLE(a, b) /\ a # b ELSE DatetimeLE(b, a) /\ a # b

Position(i, f) == 1 + Cardinality({j \in Selected(f) : Before(i, j, f.sort_order)})

DistinctTimes(f) ==
    \A i, j \in Selected(f) :
       i # j => result_datetime(i.created_at) # result_datetime(j.created_at)

C11_SeedAllOrNothing ==
    [][\A p \in Slots :
         /\ (seed_users(p) /\ pc'[p] = "idle" /\ response'.status = 400) => db' = db
         /\ ((seed_tags(p) \/ seed_items(p)) /\ pc'[p] = "idle" /\ response'.status = 400) =>
               /\ ~\E u \in users' : u.id \in Range(req[p].body.user_ids)
               /\ ~\E t \in tags' : t.id \in Range(req[p].body.tag_ids)]_vars

\* what GET /users/ and GET /users/{user_id} answer in the state after a step
FetchAllUsers == {UserWithIdSchema(u) : u \in get_all_models(users')}
FetchUser(id) ==
    IF get_model_by_id(id, users') = None THEN None
    ELSE UserWithIdSchema(get_model_by_id(id, users'))
\* the list holds exactly one user with this email; it has this display name and
\* an id of its own, and fetch-by-id of that id returns the same fields
RoundTrip(email, display_name) ==
    LET found == {u \in FetchAllUsers : u.email = email}
    IN  /\ Cardinality(found) = 1
        /\ \A u \in found :
              /\ u.display_name = display_name
              /\ \A v \in FetchAllUsers : v.id = u.id => v = u
              /\ FetchUser(u.id) = u

\* C12 as stated: after a successful POST /users with email E and display name D
\* on a state with no user with email E, fetch-all holds exactly one user with
\* email E, with display name D and an id of its own, and fetch-by-id agrees.
C12_RoundTripLiteral ==
    [][\A body \in UserInput :
         (/\ post_user(body) /\ response'.status = 200
          /\ ~\E u \in users : u.email = body.email)
            => RoundTrip(body.email, body.display_name)]_vars

\* C12 amended: the same round trip for the email as POST /users stores and echoes
\* it, E with its domain in lower case.
C12_RoundTripNormalised ==
    [][\A body \in UserInput :
         (/\ post_user(body) /\ response'.status = 200
          /\ ~\E u \in users : u.email = body.email)
            => RoundTrip(EmailStr(body.email), body.display_name)]_vars

\* a second user was created next to a first one
C12_Witness ==
    /\ response = Resp("create_user", 200, "")
    /\ Cardinality(users) = 2
    /\ \E u \in users : u.id = 2 /\ u.email = AliceEmail /\ u.display_name = "Bob"

\* C13: an item's updated timestamp is absent when the item is created, and set on
\* item I once a link or an unlink of (I, T) has succeeded.
C13_LinkStampsUpdatedAt ==
    [][\A p \in Slots :
         /\ create_item_insert(p) =>
               \A i \in items' \ items : i.updated_at = NullTime
         /\ ((link_refetch(p) \/ unlink_refetch(p)) /\ response'.status = 200) =>
               \A i \in items' : i.id = req[p].item_id => i.updated_at # NullTime]_vars

\* C14: of two concurrent link requests for the same unlinked pair, both past
\* their existence checks, the one that inserts first adds the row and the other
\* answers 400 "Item already exists" without adding a row.
SamePair(p, q) ==
    p # q /\ req[p].item_id = req[q].item_id /\ req[p].tag_id = req[q].tag_id
C14_OneOfTwoLinks ==
    [][\A p, q \in Slots :
         (SamePair(p, q) /\ link_insert(p)) =>
            LET pair == <<req[p].item_id, req[p].tag_id>>
            IN  /\ (pc[q] = "link_insert" /\ pair \notin item_tag) =>
                      /\ item_tag' = item_tag \cup {pair}
                      /\ pc'[p] = "link_refetch"
                /\ pc[q] = "link_refetch" =>
                      /\ response' = Resp("link_tag_item", 400, "Item already exists")
                      /\ pc'[p] = "idle"
                      /\ item_tag' = item_tag]_vars

\* the second request has answered 400 while the first, which inserted the only
\* row of the table, has not answered yet
C14_Witness ==
    /\ response = Resp("link_tag_item", 400, "Item already exists")
    /\ \E p \in Slots :
          /\ pc[p] = "link_refetch"
          /\ item_tag = {<<req[p].item_id, req[p].tag_id>>}

\* C15: for an existing user, the insert of POST /items/user/{user_id} answers 200
\* and adds exactly one row, holding the input under an id no stored item has,
\* whatever items are stored (also an identical one of the same user).
C15_ItemsNotUnique ==
    [][\A p \in Slots :
         (create_item_insert(p) /\ Exists(req[p].user_id, users)) =>
            /\ response' = Resp("create_item", 200, "")
            /\ \E row \in items' :
                  /\ items' = items \cup {row}
                  /\ \A i \in items : i.id # row.id
                  /\ row.user_id = req[p].user_id
                  /\ row.title = req[p].body.title /\ row.kind = req[p].body.kind
                  /\ row.status = req[p].body.status
                  /\ row.priority = req[p].body.priority
                  /\ row.notes = req[p].body.notes]_vars

\* a user's second item with the same title, kind, status, priority and notes
C15_Witness ==
    /\ response = Resp("create_item", 200, "")
    /\ \E i, j \in items :
          /\ i.id # j.id /\ i.user_id = j.user_id /\ Exists(i.user_id, users)
          /\ i.title = j.title /\ i.kind = j.kind /\ i.status = j.status
          /\ i.priority = j.priority /\ i.notes = j.notes
====
